---- MODULE Spec2Model ----
(***************************************************************************)
(* Model of Retail_Sales_Analysis/process_data.py: the sequential pipeline *)
(* create_database -> clean_data -> generate_analytics -> export_to_json   *)
(* -> the summary printout of __main__, over one SQLite store file and one *)
(* output document.                                                        *)
(*                                                                         *)
(* Values.  A column value is an optional: <<>> is SQL NULL (pandas        *)
(* NaN/None), <<x>> is the value x.  A text is a sequence of one-character *)
(* strings.  quantity is an integer.  price is a decimal with three places *)
(* held as an integer number of 1/1000 ("mills"); total_amount and every   *)
(* revenue are decimals with two places held as an integer number of       *)
(* 1/100 ("cents").  Arithmetic is exact decimal arithmetic: the binary    *)
(* floating point error of SQLite's REAL is not modelled.                  *)
(***************************************************************************)
EXTENDS Integers, Sequences, FiniteSets, TLC

VARIABLES source, db, dbBefore, pc, fault, stages, analytics, output,
          outputBefore, exportedBefore, runs

vars == <<source, db, dbBefore, pc, fault, stages, analytics, output,
          outputBefore, exportedBefore, runs>>

----------------------------------------------------------------------------
(* Optional values *)

NULL == <<>>

Val(x) == <<x>>

IsNull(v) == v = <<>>

Get(v) == v[1]

\* The sequence f, held by TLC as a tuple (its elements evaluated once).
AsTuple(f) == f \o <<>>

----------------------------------------------------------------------------
(* Characters and texts, as SQLite's built-in functions treat them *)

LowerLetters == <<"a","b","c","d","e","f","g","h","i","j","k","l","m",
                  "n","o","p","q","r","s","t","u","v","w","x","y","z">>

UpperLetters == <<"A","B","C","D","E","F","G","H","I","J","K","L","M",
                  "N","O","P","Q","R","S","T","U","V","W","X","Y","Z">>

Digits == <<"0","1","2","3","4","5","6","7","8","9">>

\* The ASCII code of the characters the inputs use.
CharCode(c) ==
    IF c = " " THEN 32
    ELSE IF c = "%" THEN 37
    ELSE IF c = "-" THEN 45
    ELSE IF c = "_" THEN 95
    ELSE IF \E i \in 1..10 : Digits[i] = c
         THEN 47 + (CHOOSE i \in 1..10 : Digits[i] = c)
    ELSE IF \E i \in 1..26 : UpperLetters[i] = c
         THEN 64 + (CHOOSE i \in 1..26 : UpperLetters[i] = c)
    ELSE 96 + (CHOOSE i \in 1..26 : LowerLetters[i] = c)

\* sqlite3Tolower: only the ASCII letters A-Z change.
ToLower(c) ==
    IF \E i \in 1..26 : UpperLetters[i] = c
    THEN LowerLetters[CHOOSE i \in 1..26 : UpperLetters[i] = c]
    ELSE c

\* LOWER(X) left out: the text as it is.
SqlLowerOmitted(s) == s

\* LOWER(X)
SqlLower(s) == [i \in 1..Len(s) |-> ToLower(s[i])]

RECURSIVE LTrim(_)
LTrim(s) == IF s # <<>> /\ Head(s) = " " THEN LTrim(Tail(s)) ELSE s

RECURSIVE RTrim(_)
RTrim(s) ==
    IF s # <<>> /\ s[Len(s)] = " " THEN RTrim(SubSeq(s, 1, Len(s) - 1)) ELSE s

\* TRIM(X): spaces removed from both ends.
SqlTrim(s) == RTrim(LTrim(s))

\* LIKE under PRAGMA case_sensitive_like: the characters as they are.
LikeCharEqCaseSensitive(a, b) == a = b

\* The comparison LIKE makes of one pattern character with one text
\* character: case-insensitive for ASCII (the default, no
\* PRAGMA case_sensitive_like).
LikeCharEq(a, b) == ToLower(a) = ToLower(b)

\* X LIKE Y for texts (patternCompare): % matches any run of characters,
\* _ any one character.
RECURSIVE SqlLike(_, _)
SqlLike(s, pattern) ==
    IF pattern = <<>> THEN s = <<>>
    ELSE IF Head(pattern) = "%"
         THEN \E k \in 0..Len(s) : SqlLike(SubSeq(s, k + 1, Len(s)), Tail(pattern))
    ELSE IF s = <<>> THEN FALSE
    ELSE IF Head(pattern) = "_" THEN SqlLike(Tail(s), Tail(pattern))
    ELSE LikeCharEq(Head(pattern), Head(s)) /\ SqlLike(Tail(s), Tail(pattern))

\* memcmp order of two texts (the BINARY collation).
RECURSIVE TextLess(_, _)
TextLess(a, b) ==
    IF b = <<>> THEN FALSE
    ELSE IF a = <<>> THEN TRUE
    ELSE IF Head(a) = Head(b) THEN TextLess(Tail(a), Tail(b))
    ELSE CharCode(Head(a)) < CharCode(Head(b))

\* SQLite's order of two optional texts: NULL sorts before every value.
OptTextLess(a, b) ==
    IF IsNull(b) THEN FALSE
    ELSE IF IsNull(a) THEN TRUE
    ELSE TextLess(Get(a), Get(b))

\* The order of two grouping keys (tuples of optional texts).
RECURSIVE KeyLess(_, _)
KeyLess(k1, k2) ==
    IF k1 = <<>> THEN FALSE
    ELSE IF Head(k1) = Head(k2) THEN KeyLess(Tail(k1), Tail(k2))
    ELSE OptTextLess(Head(k1), Head(k2))

----------------------------------------------------------------------------
(* Numbers *)

Abs(n) == IF n < 0 THEN -n ELSE n

\* ABS(X): NULL for NULL.
SqlAbs(v) == IF IsNull(v) THEN NULL ELSE Val(Abs(Get(v)))

\* X * Y: NULL when either is NULL.
SqlMul(a, b) == IF IsNull(a) \/ IsNull(b) THEN NULL ELSE Val(Get(a) * Get(b))

\* n / d rounded to the nearest integer, halves away from zero.
RoundDiv(n, d) ==
    IF n >= 0 THEN (2 * n + d) \div (2 * d) ELSE -((2 * (-n) + d) \div (2 * d))

\* ROUND(X, 2) of a number of mills, as a number of cents.
Round2Mills(v) == IF IsNull(v) THEN NULL ELSE Val(RoundDiv(Get(v), 10))

\* ROUND(ABS(quantity) * price, 2) without the ABS.
TotalAmountSigned(quantity, price) == Round2Mills(SqlMul(quantity, price))

\* ROUND(ABS(quantity) * price, 2)
TotalAmount(quantity, price) == Round2Mills(SqlMul(SqlAbs(quantity), price))

\* SQLite's order of two optional numbers: NULL sorts before every number.
OptNumLess(a, b) ==
    IF IsNull(b) THEN FALSE
    ELSE IF IsNull(a) THEN TRUE
    ELSE Get(a) < Get(b)

RECURSIVE SumSeq(_)
SumSeq(s) == IF s = <<>> THEN 0 ELSE Head(s) + SumSeq(Tail(s))

\* The non-NULL values of a column of optionals, in row order.
NonNull(col) ==
    LET kept == SelectSeq(col, LAMBDA v : ~IsNull(v))
    IN  AsTuple([i \in 1..Len(kept) |-> Get(kept[i])])

\* SUM(X): NULL when no row has a value.
SqlSum(col) == IF NonNull(col) = <<>> THEN NULL ELSE Val(SumSeq(NonNull(col)))

\* ROUND(AVG(X), 2) of a column of cents: NULL when no row has a value.
SqlAvgRound2(col) ==
    IF NonNull(col) = <<>> THEN NULL
    ELSE Val(RoundDiv(SumSeq(NonNull(col)), Len(NonNull(col))))

\* COUNT(DISTINCT X): NULLs are not counted.
SqlCountDistinct(col) == Cardinality({col[i] : i \in 1..Len(col)} \ {NULL})

----------------------------------------------------------------------------
(* clean_data's SELECT *)

Text(s) == Val(s)

UnknownCustomer == <<"U","n","k","n","o","w","n"," ","C","u","s","t","o","m","e","r">>

NullLiteral == <<"N","U","L","L">>

Electronics == <<"E","l","e","c","t","r","o","n","i","c","s">>

Furniture == <<"F","u","r","n","i","t","u","r","e">>

Stationery == <<"S","t","a","t","i","o","n","e","r","y">>

Office == <<"O","f","f","i","c","e">>

ElectronicsLower == <<"e","l","e","c","t","r","o","n","i","c","s">>

FurnitureLower == <<"f","u","r","n","i","t","u","r","e">>

StationeryLower == <<"s","t","a","t","i","o","n","e","r","y">>

OfficeLower == <<"o","f","f","i","c","e">>

InvalidPattern == <<"%","i","n","v","a","l","i","d","%">>

\* CASE WHEN customer_name = 'NULL' OR customer_name IS NULL ... END
CleanCustomerName(v) ==
    IF IsNull(v) \/ v = Text(NullLiteral) THEN Text(UnknownCustomer)
    ELSE Text(SqlTrim(Get(v)))

\* TRIM(product_name)
CleanProductName(v) == IF IsNull(v) THEN NULL ELSE Text(SqlTrim(Get(v)))

\* CASE WHEN LOWER(category) = 'electronics' ... ELSE category END.  A NULL
\* category makes every comparison NULL, and the ELSE branch returns it.
CleanCategory(v) ==
    IF IsNull(v) THEN v
    ELSE IF SqlLower(Get(v)) = ElectronicsLower THEN Text(Electronics)
    ELSE IF SqlLower(Get(v)) = FurnitureLower THEN Text(Furniture)
    ELSE IF SqlLower(Get(v)) = StationeryLower THEN Text(Stationery)
    ELSE IF SqlLower(Get(v)) = OfficeLower THEN Text(Office)
    ELSE v

\* CASE WHEN order_date LIKE '%invalid%' THEN NULL ELSE order_date END
CleanOrderDate(v) ==
    IF IsNull(v) THEN v
    ELSE IF SqlLike(Get(v), InvalidPattern) THEN NULL
    ELSE v

\* CASE WHEN ship_date IS NULL OR ship_date = '' THEN NULL ELSE ship_date END
CleanShipDate(v) == IF IsNull(v) \/ v = Text(<<>>) THEN NULL ELSE v

CleanRow(r) ==
    [order_id       |-> r.order_id,
     customer_id    |-> r.customer_id,
     customer_name  |-> CleanCustomerName(r.customer_name),
     product_name   |-> CleanProductName(r.product_name),
     category       |-> CleanCategory(r.category),
     quantity       |-> SqlAbs(r.quantity),
     price          |-> r.price,
     order_date     |-> CleanOrderDate(r.order_date),
     ship_date      |-> CleanShipDate(r.ship_date),
     region         |-> r.region,
     payment_method |-> r.payment_method,
     total_amount   |-> TotalAmount(r.quantity, r.price)]

\* SELECT ... FROM raw_sales: one row out per row in, in rowid order.
CleaningSelect(raw) == AsTuple([i \in 1..Len(raw) |-> CleanRow(raw[i])])

----------------------------------------------------------------------------
(* generate_analytics' queries over cleaned_sales *)

\* One column of a list of rows.
Column(rows, field) == AsTuple([i \in 1..Len(rows) |-> rows[i][field]])

\* A row's values of the GROUP BY columns.
KeyOf(r, fields) == AsTuple([k \in 1..Len(fields) |-> r[fields[k]]])

\* The groups of GROUP BY, in the order SQLite's sorter emits them:
\* ascending by key, NULL first.
RECURSIVE SortedKeys(_)
SortedKeys(S) ==
    IF S = {} THEN <<>>
    ELSE LET least == CHOOSE k \in S : \A o \in S \ {k} : KeyLess(k, o)
         IN  <<least>> \o SortedKeys(S \ {least})

GroupKeys(rows, fields) ==
    SortedKeys({KeyOf(rows[i], fields) : i \in 1..Len(rows)})

GroupRows(rows, fields, key) ==
    SelectSeq(rows, LAMBDA r : KeyOf(r, fields) = key)

\* The place of entry i in the ascending stable sort by revenue.
AscendingRank(revs, i) ==
    Cardinality({j \in 1..Len(revs) : OptNumLess(revs[j], revs[i])})
    + Cardinality({j \in 1..i : revs[j] = revs[i]})

\* ORDER BY <revenue> with the DESC left out.
OrderByRevenueAsc(entries, field) ==
    LET revs == Column(entries, field)
    IN  AsTuple([p \in 1..Len(entries) |->
            entries[CHOOSE i \in 1..Len(entries) : AscendingRank(revs, i) = p]])

\* ORDER BY <revenue> DESC over the grouped rows.  NULL revenues sort last;
\* groups of equal revenue come out in the reverse of their group order (the
\* behaviour of SQLite's sorter, deterministic for a given table).
OrderByRevenueDesc(entries, field) ==
    LET revs == Column(entries, field)
        n    == Len(entries)
    IN  AsTuple([p \in 1..n |->
            entries[CHOOSE i \in 1..n : AscendingRank(revs, i) = n + 1 - p]])

\* LIMIT n
Limit(entries, n) ==
    SubSeq(entries, 1, IF Len(entries) < n THEN Len(entries) ELSE n)

TopN == 10

CategoryKey == <<"category">>

RegionKey == <<"region">>

DateKey == <<"order_date">>

ProductKey == <<"product_name", "category">>

CategoryEntry(rows, key) ==
    LET g == GroupRows(rows, CategoryKey, key)
    IN  [category         |-> key[1],
         total_orders     |-> Len(g),
         total_units_sold |-> SqlSum(Column(g, "quantity")),
         total_revenue    |-> SqlSum(Column(g, "total_amount")),
         avg_order_value  |-> SqlAvgRound2(Column(g, "total_amount"))]

\* Category Performance
CategoryQuery(rows) ==
    LET keys == GroupKeys(rows, CategoryKey)
    IN  OrderByRevenueDesc(AsTuple([i \in 1..Len(keys) |-> CategoryEntry(rows, keys[i])]),
                           "total_revenue")

RegionalEntry(rows, key) ==
    LET g == GroupRows(rows, RegionKey, key)
    IN  [region           |-> key[1],
         total_orders     |-> Len(g),
         total_revenue    |-> SqlSum(Column(g, "total_amount")),
         unique_customers |-> SqlCountDistinct(Column(g, "customer_id"))]

\* Regional Performance
RegionalQuery(rows) ==
    LET keys == GroupKeys(rows, RegionKey)
    IN  OrderByRevenueDesc(AsTuple([i \in 1..Len(keys) |-> RegionalEntry(rows, keys[i])]),
                           "total_revenue")

DailyEntry(rows, key) ==
    LET g == GroupRows(rows, DateKey, key)
    IN  [order_date |-> key[1],
         orders     |-> Len(g),
         revenue    |-> SqlSum(Column(g, "total_amount"))]

\* Daily Sales without its WHERE clause.
DailyQueryUnfiltered(rows) ==
    LET keys == GroupKeys(rows, DateKey)
    IN  AsTuple([i \in 1..Len(keys) |-> DailyEntry(rows, keys[i])])

\* Daily Sales: WHERE order_date IS NOT NULL, GROUP BY order_date,
\* ORDER BY order_date (the order the groups are emitted in).
DailyQuery(rows) ==
    LET kept == SelectSeq(rows, LAMBDA r : ~IsNull(r.order_date))
        keys == GroupKeys(kept, DateKey)
    IN  AsTuple([i \in 1..Len(keys) |-> DailyEntry(kept, keys[i])])

ProductEntry(rows, key) ==
    LET g == GroupRows(rows, ProductKey, key)
    IN  [product_name |-> key[1],
         category     |-> key[2],
         units_sold   |-> SqlSum(Column(g, "quantity")),
         revenue      |-> SqlSum(Column(g, "total_amount"))]

\* Top Products with the DESC left out of its ORDER BY.
ProductQueryAscending(rows) ==
    LET keys == GroupKeys(rows, ProductKey)
        entries == AsTuple([i \in 1..Len(keys) |-> ProductEntry(rows, keys[i])])
    IN  Limit(OrderByRevenueAsc(entries, "revenue"), TopN)

\* Top Products
ProductQuery(rows) ==
    LET keys == GroupKeys(rows, ProductKey)
        entries == AsTuple([i \in 1..Len(keys) |-> ProductEntry(rows, keys[i])])
    IN  Limit(OrderByRevenueDesc(entries, "revenue"), TopN)

\* Summary Metrics: one row, also over an empty table.
SummaryQuery(rows) ==
    [total_revenue   |-> SqlSum(Column(rows, "total_amount")),
     total_orders    |-> Len(rows),
     total_customers |-> SqlCountDistinct(Column(rows, "customer_id")),
     avg_order_value |-> SqlAvgRound2(Column(rows, "total_amount"))]

Analytics(rows) ==
    [category |-> CategoryQuery(rows),
     regional |-> RegionalQuery(rows),
     daily    |-> DailyQuery(rows),
     product  |-> ProductQuery(rows),
     summary  |-> SummaryQuery(rows)]

----------------------------------------------------------------------------
(* export_to_json *)

\* float(None) raises TypeError: an all-NULL aggregate reaches pandas as
\* None (an object column), for an empty cleaned_sales in particular.
FloatRaises(v) == IsNull(v)

ExportRaises(a) ==
    FloatRaises(a.summary.total_revenue) \/ FloatRaises(a.summary.avg_order_value)

\* The dict export_to_json builds: the summary's numbers converted, the
\* four frames as lists of records in the queries' order.
ExportData(a) ==
    [summary  |-> [total_revenue   |-> Get(a.summary.total_revenue),
                   total_orders    |-> a.summary.total_orders,
                   total_customers |-> a.summary.total_customers,
                   avg_order_value |-> Get(a.summary.avg_order_value)],
     category |-> a.category,
     regional |-> a.regional,
     daily    |-> a.daily,
     product  |-> a.product]

----------------------------------------------------------------------------
(* The source files the runs read: the rows pd.read_csv returns *)

MaxRows == 2

MaxQuantity == 3

MaxProducts == 12

MaxRuns == 2

Cash == <<"C","a","s","h">>

North == <<"N","o","r","t","h">>

South == <<"S","o","u","t","h">>

East == <<"E","a","s","t">>

Day4 == <<"2","0","2","4","-","0","1","-","0","4">>

Day5 == <<"2","0","2","4","-","0","1","-","0","5">>

Row(id, cust, prod, cat, qty, price, odate, region) ==
    [order_id       |-> Val(id),
     customer_id    |-> cust,
     customer_name  |-> IF IsNull(cust) THEN NULL ELSE Text(<<" ","A","n","n"," ">>),
     product_name   |-> prod,
     category       |-> cat,
     quantity       |-> qty,
     price          |-> price,
     order_date     |-> odate,
     ship_date      |-> NULL,
     region         |-> region,
     payment_method |-> Text(Cash)]

\* Rows of mixed content: NULL categories, regions, customers and prices,
\* sign errors, and three rows of equal total_amount in different groups.
GeneralRows ==
    { Row(1, Val(1), Text(<<"p","e","n">>), Text(<<"o","f","f","i","c","e">>), Val(2), Val(1500),
          Text(Day5), Text(North)),
      Row(2, Val(2), Text(<<"d","e","s","k">>), Text(<<"F","U","R","N","I","T","U","R","E">>), Val(-1), Val(99990),
          Text(Day4), Text(South)),
      Row(3, Val(1), Text(<<"p","e","n">>), NULL, Val(3), Val(1000), Text(Day5), NULL),
      Row(4, NULL, Text(<<"l","a","m","p">>), Text(<<"T","o","y","s">>), Val(1), NULL, NULL, Text(North)),
      Row(5, Val(3), Text(<<"d","e","s","k">>), Text(<<"F","u","r","n","i","t","u","r","e">>), Val(1), Val(3000),
          Text(<<"i","n","v","a","l","i","d">>), Text(South)),
      Row(6, Val(2), Text(<<"c","a","b","l","e">>), Text(<<"e","l","e","c","t","r","o","n","i","c","s">>), Val(3), Val(1000),
          Text(Day4), Text(East)) }

SeqsUpTo(S, n) == UNION {[1..k -> S] : k \in 0..n}

GeneralFiles == SeqsUpTo(GeneralRows, MaxRows)

\* Every spelling of a text that differs from it only in the case of letters.
RECURSIVE CaseVariants(_)
CaseVariants(s) ==
    IF s = <<>> THEN {<<>>}
    ELSE LET i == CHOOSE k \in 1..26 : LowerLetters[k] = Head(s)
         IN  {<<c>> \o rest : c \in {LowerLetters[i], UpperLetters[i]},
                              rest \in CaseVariants(Tail(s))}

CategoryValues ==
    {NULL}
    \cup {Text(v) : v \in CaseVariants(OfficeLower)}
    \cup {Text(v) : v \in { <<"E","L","E","C","T","R","O","N","I","C","S">>, <<"e","l","e","c","t","r","o","n","i","c","s">>, <<"E","l","e","c","t","r","o","n","i","c","s">>,
                            <<"e","L","E","C","T","R","O","N","I","C","s">>, <<"F","U","R","N","I","T","U","R","E">>, <<"f","u","r","n","i","t","u","r","e">>,
                            <<"S","t","a","t","i","o","n","e","r","y">>, <<"S","T","A","T","I","O","N","E","R","Y">>, <<"s","t","a","t","i","o","n","a","r","y">>,
                            <<"T","o","y","s">>, <<"t","o","y","s">>, <<" ","o","f","f","i","c","e">>, <<"o","f","f","i","c","e"," ">>, <<"o","f","f","i","c","e","s">> }}

CategoryFiles ==
    { << Row(1, Val(1), Text(<<"p","e","n">>), c, Val(1), Val(1000), Text(Day5), Text(North)) >> :
        c \in CategoryValues }

DateValues ==
    {NULL}
    \cup {Text(v) : v \in { Day4, Day5, <<"2","0","2","4","-","1","-","5">>, <<"2","0","2","4","-","0","1","-","0","5","-","i","n","v","a","l","i","d">>,
                            <<"I","N","V","A","L","I","D">>, <<"I","n","v","a","l","i","d"," ","d","a","t","e">>, <<"i","n","v","a","l">> }}

\* Files of one to MaxRows + 1 rows that differ in order_date alone; the
\* first row is dated Day5.
DateFiles ==
    { [i \in 1..Len(ds) + 1 |->
          Row(i, Val(i), Text(<<"p","e","n">>), Text(Office), Val(1), Val(1000),
              IF i = 1 THEN Text(Day5) ELSE ds[i - 1], Text(North))] :
        ds \in SeqsUpTo(DateValues, MaxRows) }

QuantityValues == {NULL} \cup {Val(q) : q \in -MaxQuantity..MaxQuantity}

PriceValues ==
    {NULL} \cup {Val(m) : m \in {-2500, -5, -4, 0, 4, 5, 995, 1005, 3335, 10000}}

AmountFiles ==
    { << Row(1, Val(1), Text(<<"p","e","n">>), Text(Office), q, m, Text(Day5), Text(North)) >> :
        q \in QuantityValues, m \in PriceValues }

\* Catalogues of n rows, one product per row (named by a letter), the prices
\* repeating a pattern of three; with padded, the last row is the first
\* row's product written with surrounding spaces.
ProductName(i, n, padded) ==
    IF padded /\ i = n /\ n > 1 THEN <<" ", LowerLetters[1], " ">>
    ELSE <<LowerLetters[i]>>

ProductFiles ==
    { [i \in 1..n |->
          Row(i, Val(1), Text(ProductName(i, n, padded)), Text(Office), Val(1),
              pattern[((i - 1) % 3) + 1], Text(Day5), Text(North))] :
        n \in (TopN - 1)..MaxProducts,
        padded \in BOOLEAN,
        pattern \in [1..3 -> {NULL, Val(1000), Val(2000)}] }

MissingFile == [present |-> FALSE, rows |-> <<>>]

SourceFiles ==
    {MissingFile}
    \cup { [present |-> TRUE, rows |-> f] :
             f \in GeneralFiles \cup CategoryFiles \cup DateFiles
                   \cup AmountFiles \cup ProductFiles }

----------------------------------------------------------------------------
(* The store file and the output document *)

EmptyStore == [raw_sales |-> NULL, cleaned_sales |-> NULL]

\* The rows of an earlier run on another input.
EarlierRows ==
    << Row(7, Val(4), Text(<<"d","e","s","k">>), Text(<<"f","u","r","n","i","t","u","r","e">>), Val(2), Val(45000),
           Text(Day4), Text(East)),
       Row(8, Val(5), Text(<<"p","e","n">>), Text(<<"O","F","F","I","C","E">>), Val(-4), Val(1500),
           Text(<<"2","0","2","3","-","1","2","-","3","1">>), Text(South)),
       Row(9, Val(4), Text(<<"l","a","m","p">>), Text(<<"T","o","y","s">>), Val(1), Val(12500),
           Text(Day4), NULL) >>

\* What the store holds before the first run: nothing, or the two tables an
\* earlier run left.
PriorStores ==
    { EmptyStore,
      [raw_sales |-> Val(EarlierRows), cleaned_sales |-> Val(CleaningSelect(EarlierRows))] }

Absent == [kind |-> "absent", data |-> <<>>]

\* The output file opened for writing and not written in full.
Partial == [kind |-> "partial", data |-> <<>>]

Document(data) == [kind |-> "document", data |-> data]

----------------------------------------------------------------------------
(* The pipeline *)

\* df.to_sql('raw_sales', ..., if_exists='append')
ToSqlAppend(store, rows) ==
    [store EXCEPT !.raw_sales =
        IF IsNull(store.raw_sales) THEN Val(rows)
        ELSE Val(Get(store.raw_sales) \o rows)]

\* df.to_sql('raw_sales', conn, if_exists='replace', index=False)
ToSql(store, rows) == [store EXCEPT !.raw_sales = Val(rows)]

\* clean_data without its DROP TABLE.
DropCleanedSalesOmitted(store) == store

\* DROP TABLE IF EXISTS cleaned_sales
DropCleanedSales(store) == [store EXCEPT !.cleaned_sales = NULL]

\* CREATE TABLE IF NOT EXISTS cleaned_sales AS SELECT ... FROM raw_sales
CreateCleanedSales(store) ==
    IF IsNull(store.cleaned_sales)
    THEN [store EXCEPT !.cleaned_sales = Val(CleaningSelect(Get(store.raw_sales)))]
    ELSE store

Init ==
    /\ source \in SourceFiles
    /\ db \in PriorStores
    /\ dbBefore = db
    /\ pc = "create_database"
    /\ fault = "none"
    /\ stages = <<>>
    /\ analytics = NULL
    /\ output = Absent
    /\ outputBefore = Absent
    /\ exportedBefore = FALSE
    /\ runs = 1

Abort(error) ==
    /\ pc' = "aborted"
    /\ fault' = error

\* create_database: pd.read_csv raises when the file is missing; otherwise
\* raw_sales is replaced by the file's rows.
CreateDatabase ==
    /\ pc = "create_database"
    /\ stages' = Append(stages, "Loader")
    /\ \/ /\ ~source.present
          /\ Abort("FileNotFoundError")
          /\ UNCHANGED db
       \/ /\ source.present
          /\ db' = ToSql(db, source.rows)
          /\ pc' = "clean_data"
          /\ UNCHANGED fault
    /\ UNCHANGED <<source, dbBefore, analytics, output, outputBefore,
                   exportedBefore, runs>>

\* clean_data: drop, recreate, commit.
CleanData ==
    /\ pc = "clean_data"
    /\ stages' = Append(stages, "Cleaner")
    /\ db' = CreateCleanedSales(DropCleanedSales(db))
    /\ pc' = "generate_analytics"
    /\ UNCHANGED <<source, dbBefore, fault, analytics, output, outputBefore,
                   exportedBefore, runs>>

\* generate_analytics: the five queries.
GenerateAnalytics ==
    /\ pc = "generate_analytics"
    /\ stages' = Append(stages, "Aggregator")
    /\ analytics' = Val(Analytics(Get(db.cleaned_sales)))
    /\ pc' = "export_to_json"
    /\ UNCHANGED <<source, db, dbBefore, fault, output, outputBefore,
                   exportedBefore, runs>>

\* export_to_json: the dict is built (float() may raise), the output file
\* is opened with mode 'w', which truncates it, and json.dump streams the
\* document into it.  The file system may refuse the open or fail a write.
ExportToJson ==
    /\ pc = "export_to_json"
    /\ stages' = Append(stages, "Exporter")
    /\ \/ /\ ExportRaises(Get(analytics))
          /\ Abort("TypeError")
          /\ UNCHANGED output
       \/ /\ ~ExportRaises(Get(analytics))
          /\ Abort("PermissionError")
          /\ UNCHANGED output
       \/ /\ ~ExportRaises(Get(analytics))
          /\ Abort("OSError")
          /\ output' = Partial
       \/ /\ ~ExportRaises(Get(analytics))
          /\ output' = Document(ExportData(Get(analytics)))
          /\ pc' = "print_summary"
          /\ UNCHANGED fault
    /\ UNCHANGED <<source, db, dbBefore, analytics, outputBefore,
                   exportedBefore, runs>>

\* __main__ after the export: the summary printout reads the first entry of
\* the category frame (.iloc[0] raises IndexError on an empty frame), then
\* the connection is closed.
PrintSummary ==
    /\ pc = "print_summary"
    /\ pc' = IF Get(analytics).category = <<>> THEN "aborted" ELSE "done"
    /\ fault' = IF Get(analytics).category = <<>> THEN "IndexError" ELSE fault
    /\ UNCHANGED <<source, db, dbBefore, stages, analytics, output,
                   outputBefore, exportedBefore, runs>>

\* json.dump of this run has written the whole document.
Exported ==
    \/ pc \in {"print_summary", "done"}
    \/ pc = "aborted" /\ fault = "IndexError"

\* The program is started again on the same source file and store file.
Rerun ==
    /\ pc \in {"done", "aborted"}
    /\ runs < MaxRuns
    /\ runs' = runs + 1
    /\ pc' = "create_database"
    /\ fault' = "none"
    /\ stages' = <<>>
    /\ analytics' = NULL
    /\ dbBefore' = db
    /\ outputBefore' = output
    /\ exportedBefore' = Exported
    /\ UNCHANGED <<source, db, output>>

Next ==
    \/ CreateDatabase
    \/ CleanData
    \/ GenerateAnalytics
    \/ ExportToJson
    \/ PrintSummary
    \/ Rerun

Spec == Init /\ [][Next]_vars

----------------------------------------------------------------------------
(* Properties *)

StageRan(name) == \E i \in 1..Len(stages) : stages[i] = name

\* clean_data of this run has completed (create_database before it).
CleanCompleted == StageRan("Cleaner")

\* generate_analytics of this run has returned.
AnalyticsReturned == ~IsNull(analytics)

RawTable == Get(db.raw_sales)

CleanedTable == Get(db.cleaned_sales)

\* Two characters that are the same letter in either case, or equal.
SameLetter(a, b) ==
    \/ a = b
    \/ \E k \in 1..26 : {a, b} = {LowerLetters[k], UpperLetters[k]}

SameIgnoringCase(a, b) ==
    /\ Len(a) = Len(b)
    /\ \A i \in 1..Len(a) : SameLetter(a[i], b[i])

CanonicalLabels == {Electronics, Furniture, Stationery, Office}

\* A text that is a canonical label in another casing.
DifferentCasedVariant(v) ==
    /\ ~IsNull(v)
    /\ \E label \in CanonicalLabels :
          Get(v) # label /\ SameIgnoringCase(Get(v), label)

Invalid == <<"i","n","v","a","l","i","d">>

ContainsExactly(s, w) ==
    \E k \in 0..(Len(s) - Len(w)) : SubSeq(s, k + 1, k + Len(w)) = w

ContainsIgnoringCase(s, w) ==
    \E k \in 0..(Len(s) - Len(w)) : SameIgnoringCase(SubSeq(s, k + 1, k + Len(w)), w)

\* t cents is m mills rounded to two places, halves away from zero.
NearestCent(t, m) ==
    /\ Abs(10 * t - m) <= 5
    /\ Abs(10 * t - m) = 5 => Abs(10 * t) > Abs(m)

\* C1: after create_database and clean_data of a run have completed,
\* cleaned_sales has exactly as many rows as the raw_sales loaded in that
\* run (the rows of the source file), whatever the store held before.
C1_RowCountPreserved ==
    CleanCompleted =>
        /\ ~IsNull(db.raw_sales)
        /\ ~IsNull(db.cleaned_sales)
        /\ Len(RawTable) = Len(source.rows)
        /\ Len(CleanedTable) = Len(RawTable)

C1_Witness ==
    /\ CleanCompleted
    /\ ~IsNull(dbBefore.cleaned_sales)
    /\ Len(source.rows) >= 2
    /\ Len(Get(dbBefore.cleaned_sales)) # Len(source.rows)
    /\ Len(CleanedTable) = Len(source.rows)

\* C2 as stated: every cleaned row's total_amount is abs(quantity) * price
\* rounded to two places and is >= 0, for every quantity and every price.
C2_Original ==
    CleanCompleted =>
        \A i \in 1..Len(CleanedTable) :
            LET r == RawTable[i]
                c == CleanedTable[i]
            IN  (~IsNull(r.quantity) /\ ~IsNull(r.price)) =>
                    /\ ~IsNull(c.total_amount)
                    /\ NearestCent(Get(c.total_amount), Abs(Get(r.quantity)) * Get(r.price))
                    /\ Get(c.total_amount) >= 0

\* C2 as amended: every cleaned row's total_amount is abs(quantity) * price
\* rounded to two places (halves away from zero), with price passed through
\* unchanged; it is >= 0 when price >= 0 and <= 0 when price < 0, and it is
\* NULL when quantity or price is NULL.
C2_TotalAmount ==
    CleanCompleted =>
        \A i \in 1..Len(CleanedTable) :
            LET r == RawTable[i]
                c == CleanedTable[i]
            IN  /\ c.price = r.price
                /\ IF IsNull(r.quantity) \/ IsNull(r.price)
                   THEN IsNull(c.total_amount)
                   ELSE /\ ~IsNull(c.total_amount)
                        /\ NearestCent(Get(c.total_amount),
                                       Abs(Get(r.quantity)) * Get(r.price))
                        /\ Get(r.price) >= 0 => Get(c.total_amount) >= 0
                        /\ Get(r.price) < 0 => Get(c.total_amount) =< 0

C2_Witness ==
    /\ CleanCompleted
    /\ \E i \in 1..Len(CleanedTable) :
          /\ RawTable[i].quantity = Val(-3)
          /\ RawTable[i].price = Val(1005)
          /\ CleanedTable[i].total_amount = Val(302)

\* C3: every cleaned category is one of the four canonical labels or the raw
\* row's category unchanged, and is never a canonical label in another
\* casing.
C3_CategoryCanonical ==
    CleanCompleted =>
        \A i \in 1..Len(CleanedTable) :
            LET c == CleanedTable[i].category
            IN  /\ \/ c \in {Text(label) : label \in CanonicalLabels}
                   \/ c = RawTable[i].category
                /\ ~DifferentCasedVariant(c)

C3_Witness ==
    /\ CleanCompleted
    /\ \E i \in 1..Len(CleanedTable) :
          /\ DifferentCasedVariant(RawTable[i].category)
          /\ RawTable[i].category = Text(<<"o","F","f","I","c","E">>)
          /\ CleanedTable[i].category = Text(Office)

\* C7 as stated: order_date becomes NULL exactly when the raw order_date
\* contains "invalid" in exactly that casing; every other order_date is
\* passed through unchanged.
C7_Original ==
    CleanCompleted =>
        \A i \in 1..Len(CleanedTable) :
            LET r == RawTable[i].order_date
                c == CleanedTable[i].order_date
            IN  ~IsNull(r) =>
                    IF ContainsExactly(Get(r), Invalid) THEN IsNull(c) ELSE c = r

\* C7 as amended: order_date becomes NULL exactly when the raw order_date
\* contains "invalid" in any casing of its ASCII letters (SQLite's LIKE);
\* every other order_date, a NULL one included, is passed through unchanged.
C7_OrderDateInvalid ==
    CleanCompleted =>
        \A i \in 1..Len(CleanedTable) :
            LET r == RawTable[i].order_date
                c == CleanedTable[i].order_date
            IN  IF ~IsNull(r) /\ ContainsIgnoringCase(Get(r), Invalid)
                THEN IsNull(c)
                ELSE c = r

C7_Witness ==
    /\ CleanCompleted
    /\ \E i \in 1..Len(CleanedTable) :
          /\ RawTable[i].order_date = Text(<<"I","n","v","a","l","i","d"," ","d","a","t","e">>)
          /\ IsNull(CleanedTable[i].order_date)
    /\ \E i \in 1..Len(CleanedTable) :
          /\ RawTable[i].order_date = Text(<<"i","n","v","a","l">>)
          /\ CleanedTable[i].order_date = Text(<<"i","n","v","a","l">>)

\* The sum of the revenues a list view shows, an entry without a revenue
\* (NULL) adding nothing.
ViewRevenue(entries) == SumSeq(NonNull(Column(entries, "total_revenue")))

\* C4: in what generate_analytics returns, the summary's total_revenue
\* equals the sum of total_revenue over the category view and over the
\* regional view, for every cleaned table.
C4_RevenueAgrees ==
    AnalyticsReturned =>
        /\ Get(analytics).summary.total_revenue
              = Val(ViewRevenue(Get(analytics).category))
        /\ Get(analytics).summary.total_revenue
              = Val(ViewRevenue(Get(analytics).regional))

\* doc is the document of a run on the rows of a source file, whatever the
\* store holds.
IsDocumentOf(doc, rows) ==
    \A cleaned \in {CleaningSelect(rows)} :
        \A a \in {Analytics(cleaned)} :
            ~ExportRaises(a) /\ doc = Document(ExportData(a))

\* C5: a run that writes the output document writes the same document as
\* the run before it on the same source file did, entry order included, and
\* the document export_to_json returns with depends on the source file
\* alone, not on what the store held before.
C5_Idempotent ==
    /\ (Exported /\ exportedBefore) => output = outputBefore
    /\ pc = "print_summary" => IsDocumentOf(output, source.rows)

C5_Witness ==
    /\ Exported
    /\ exportedBefore
    /\ runs = 2
    /\ output.kind = "document"
    /\ \E i, j \in 1..Len(output.data.category) :
          /\ i < j
          /\ output.data.category[i].total_revenue
                = output.data.category[j].total_revenue
    /\ \E i, j \in 1..Len(output.data.product) :
          /\ i < j
          /\ output.data.product[i].revenue = output.data.product[j].revenue

HeaderOnly == source.present /\ source.rows = <<>>

\* C6: on a source file with a header row and no data rows the run ends
\* without an unhandled error of its own (only the file system may fail
\* it), and the document it writes has total_orders 0 and four empty lists.
C6_EmptySourceCompletes ==
    HeaderOnly =>
        /\ fault \notin {"TypeError", "IndexError"}
        /\ Exported =>
              /\ output.kind = "document"
              /\ output.data.summary.total_orders = 0
              /\ output.data.category = <<>>
              /\ output.data.regional = <<>>
              /\ output.data.daily = <<>>
              /\ output.data.product = <<>>

ProductGroups ==
    {KeyOf(CleanedTable[i], ProductKey) : i \in 1..Len(CleanedTable)}

GroupRevenue(key) ==
    SqlSum(Column(GroupRows(CleanedTable, ProductKey, key), "total_amount"))

\* C8: the product view has at most 10 entries (all groups when there are
\* fewer), one per distinct (product_name, category) pair of cleaned_sales,
\* each with its group's revenue, in non-increasing order of revenue (NULL
\* last), and no group left out has a greater revenue than a group shown.
C8_TopProducts ==
    AnalyticsReturned =>
        LET view == Get(analytics).product
        IN  /\ Len(view) =< 10
            /\ Len(view) = IF Cardinality(ProductGroups) < 10
                           THEN Cardinality(ProductGroups) ELSE 10
            /\ \A i \in 1..Len(view) :
                  /\ KeyOf(view[i], ProductKey) \in ProductGroups
                  /\ view[i].revenue = GroupRevenue(KeyOf(view[i], ProductKey))
            /\ \A i, j \in 1..Len(view) :
                  i < j => /\ KeyOf(view[i], ProductKey) # KeyOf(view[j], ProductKey)
                           /\ ~OptNumLess(view[i].revenue, view[j].revenue)
            /\ \A key \in ProductGroups :
                  (\A i \in 1..Len(view) : KeyOf(view[i], ProductKey) # key) =>
                      \A i \in 1..Len(view) :
                          ~OptNumLess(view[i].revenue, GroupRevenue(key))

C8_Witness ==
    /\ AnalyticsReturned
    /\ Cardinality(ProductGroups) > 10
    /\ Cardinality(ProductGroups) < Len(CleanedTable)
    /\ Len(Get(analytics).product) = 10
    /\ Get(analytics).product[1].revenue # Get(analytics).product[10].revenue
    /\ \E key \in ProductGroups :
          /\ \A i \in 1..10 : KeyOf(Get(analytics).product[i], ProductKey) # key
          /\ GroupRevenue(key) = Get(analytics).product[10].revenue

PipelineOrder == <<"Loader", "Cleaner", "Aggregator", "Exporter">>

\* C9: the stages run in the order Loader, Cleaner, Aggregator, Exporter,
\* none after a failed one, and a run that aborts leaves the output document
\* as it was before the run or as the complete document of this run.
C9_NoPartialOutput ==
    /\ Len(stages) =< 4
    /\ stages = SubSeq(PipelineOrder, 1, Len(stages))
    /\ pc = "aborted" =>
          \/ output = outputBefore
          \/ /\ AnalyticsReturned
             /\ ~ExportRaises(Get(analytics))
             /\ output = Document(ExportData(Get(analytics)))

CleanedDates ==
    {CleanedTable[i].order_date : i \in 1..Len(CleanedTable)} \ {NULL}

\* C10: the daily view has exactly one entry per distinct non-NULL
\* order_date of cleaned_sales, in strictly ascending order of order_date,
\* none for NULL, and its orders add up to the number of cleaned rows with
\* an order_date.
C10_DailyView ==
    AnalyticsReturned =>
        LET view == Get(analytics).daily
        IN  /\ {view[i].order_date : i \in 1..Len(view)} = CleanedDates
            /\ Len(view) = Cardinality(CleanedDates)
            /\ \A i, j \in 1..Len(view) :
                  i < j => OptTextLess(view[i].order_date, view[j].order_date)
            /\ \A i \in 1..Len(view) :
                  view[i].orders =
                      Cardinality({k \in 1..Len(CleanedTable) :
                                     CleanedTable[k].order_date = view[i].order_date})
            /\ SumSeq([i \in 1..Len(view) |-> view[i].orders])
                  = Cardinality({k \in 1..Len(CleanedTable) :
                                   ~IsNull(CleanedTable[k].order_date)})

C10_Witness ==
    /\ AnalyticsReturned
    /\ Len(CleanedTable) = 3
    /\ IsNull(CleanedTable[2].order_date)
    /\ ~IsNull(RawTable[2].order_date)
    /\ CleanedTable[1].order_date = Text(Day5)
    /\ CleanedTable[3].order_date = Text(Day4)
    /\ Len(Get(analytics).daily) = 2
    /\ Get(analytics).daily[1].order_date = Text(Day4)

====
